---- MODULE Spec2Model ----
(***************************************************************************)
(* Versioned tender/bid store (api/storage.go) driven by its HTTP handlers *)
(* (api/api.go).  The relational tables are the state; every handler is    *)
(* one action that runs the whole request, transaction included.           *)
(***************************************************************************)
EXTENDS Integers, Sequences, FiniteSets, TLC

\* Model bound: the largest number of version rows (both version tables
\* together) the store is filled with.
MaxRows == 3

\* VARCHAR(255) of the name column of both version tables.
NameLimit == 255

\* HTTP status codes written by the handlers.
StatusOK == 200
StatusBadRequest == 400
StatusNotFound == 404

----------------------------------------------------------------------------
\* Tables that no handler writes: employee, organization,
\* organization_responsible.  carol is an employee without any organization,
\* alice and bob are responsible for one organization each.

employee ==
  { [id |-> "e1", username |-> "alice"],
    [id |-> "e2", username |-> "bob"],
    [id |-> "e3", username |-> "carol"] }

organization == {"o1", "o2"}

organization_responsible ==
  { [organization_id |-> "o1", user_id |-> "e1"],
    [organization_id |-> "o2", user_id |-> "e2"] }

\* Values uuid_generate_v4() hands out for tender and bid headers, in the
\* order they are handed out (the values are interchangeable).
TenderIds == <<"t1", "t2">>
BidIds == <<"b1", "b2">>

\* A well-formed id that is never stored.
UnknownId == "u9"

LongName == "xxxxxxxxxxxxxxxxxxxxxxxxxxxxxxxxxxxxxxxxxxxxxxxxxxxxxxxxxxxxxxxxxxxxxxxxxxxxxxxxxxxxxxxxxxxxxxxxxxxxxxxxxxxxxxxxxxxxxxxxxxxxxxxxxxxxxxxxxxxxxxxxxxxxxxxxxxxxxxxxxxxxxxxxxxxxxxxxxxxxxxxxxxxxxxxxxxxxxxxxxxxxxxxxxxxxxxxxxxxxxxxxxxxxxxxxxxxxxxxxxxxxxxxxxxxxxxxx"

\* (name, description) pairs carried by requests.
Contents ==
  { [name |-> "Road works", description |-> "Phase 1"],
    [name |-> "Bridge", description |-> "Phase 2"] }

BadContents == { [name |-> LongName, description |-> "Phase 1"] }

VARIABLES CreateTenderTable, CreateTenderVersion, Bids, BidsVersion,
          reviewsOnBid, last, sessions

vars == <<CreateTenderTable, CreateTenderVersion, Bids, BidsVersion,
          reviewsOnBid, last, sessions>>

\* The sessions that run store methods statement by statement; the router
\* that serves one request after the other leaves them alone.
Procs == {"p1", "p2"}

\* The five tables the handlers write, as one value.  reviewsOnBid is the
\* list of its rows [bid_id, creator_username, comment] in insertion order.
DB == [tt |-> CreateTenderTable, tv |-> CreateTenderVersion,
       bt |-> Bids, bv |-> BidsVersion, rv |-> reviewsOnBid]

----------------------------------------------------------------------------
\* Helpers for the SQL the store issues.

Range(s) == { s[i] : i \in 1..Len(s) }

\* ORDER BY version ASC: the lowest stored version.
MinVersion(rows) ==
  CHOOSE m \in { rows[i].version : i \in 1..Len(rows) } :
    \A i \in 1..Len(rows) : m <= rows[i].version

\* SELECT MAX(version) / ORDER BY version DESC LIMIT 1 over a non-empty
\* list of version rows.
MaxVersion(rows) ==
  CHOOSE m \in { rows[i].version : i \in 1..Len(rows) } :
    \A i \in 1..Len(rows) : rows[i].version <= m

\* uuid_generate_v4(): the first value not used as a primary key yet.
NewUuid(ids, used) ==
  ids[CHOOSE i \in 1..Len(ids) :
        /\ ids[i] \notin used
        /\ \A j \in 1..(i - 1) : ids[j] \in used]

\* CHECK (status IN ('CREATED', 'PUBLISHED', 'CANCELED')).
StatusCheck(status) == status \in {"CREATED", "PUBLISHED", "CANCELED"}

\* The version rows of one header id, in insertion order.
Rows(tab, id) == IF id \in DOMAIN tab THEN tab[id] ELSE <<>>

RECURSIVE CountRows(_, _, _)
CountRows(tab, ids, i) ==
  IF i > Len(ids) THEN 0 ELSE Len(tab[ids[i]]) + CountRows(tab, ids, i + 1)

\* Number of version rows in both version tables and of review rows.
TotalRows(db) ==
  CountRows(db.tv, TenderIds, 1) + CountRows(db.bv, BidIds, 1) + Len(db.rv)

\* What a store method hands back: the tables after the call, the returned
\* pointer (<<>> is nil, <<e>> points to e), the returned error (<<>> is
\* nil) and whether the transaction was committed.  The fault a method is
\* called with is the point at which the store fails during the call:
\* "none", "begin" (s.db.Begin() fails) or "commit" (tx.Commit() fails).
Ret(db, ret, err, committed) ==
  [db |-> db, ret |-> ret, err |-> err, committed |-> committed]

----------------------------------------------------------------------------
\* storage.go

\* CreateTender keeping the header when the version insert fails.
CreateTender_NoRollback(db, t, fault) ==
  LET id == NewUuid(TenderIds, { h.id : h \in db.tt })
      headerOk == /\ StatusCheck(t.Status)
                  /\ t.OrganizationID \in organization
                  /\ t.CreatorUsername \in { e.username : e \in employee }
      versionOk == Len(t.Name) <= NameLimit
      hdr == [db EXCEPT
                !.tt = @ \cup { [id |-> id, service_type |-> t.ServiceType,
                                 status |-> t.Status,
                                 organization_id |-> t.OrganizationID,
                                 creator_username |-> t.CreatorUsername] }]
      tx == [hdr EXCEPT
               !.tv[id] = Append(@, [name |-> t.Name,
                                     description |-> t.Description,
                                     version |-> 1])]
  IN IF fault = "begin"
       THEN Ret(db, <<>>, <<"failed to begin transaction">>, FALSE)
     ELSE IF ~headerOk
       THEN Ret(db, <<>>, <<"failed to insert CreateTenderTable">>, FALSE)
     ELSE IF ~versionOk
       THEN Ret(hdr, <<>>, <<"failed to insert CreateTenderVersion">>, TRUE)
     ELSE IF fault = "commit"
       THEN Ret(db, <<[t EXCEPT !.Id = id]>>, <<>>, FALSE)
     ELSE Ret(tx, <<[t EXCEPT !.Id = id]>>, <<>>, TRUE)

CreateTender(db, t, fault) ==
  LET id == NewUuid(TenderIds, { h.id : h \in db.tt })
      headerOk == /\ StatusCheck(t.Status)
                  /\ t.OrganizationID \in organization
                  /\ t.CreatorUsername \in { e.username : e \in employee }
      versionOk == Len(t.Name) <= NameLimit
      tx == [db EXCEPT
               !.tt = @ \cup { [id |-> id, service_type |-> t.ServiceType,
                                status |-> t.Status,
                                organization_id |-> t.OrganizationID,
                                creator_username |-> t.CreatorUsername] },
               !.tv[id] = Append(@, [name |-> t.Name,
                                     description |-> t.Description,
                                     version |-> 1])]
  IN IF fault = "begin"
       THEN Ret(db, <<>>, <<"failed to begin transaction">>, FALSE)
     ELSE IF ~headerOk
       THEN Ret(db, <<>>, <<"failed to insert CreateTenderTable">>, FALSE)
     ELSE IF ~versionOk
       THEN Ret(db, <<>>, <<"failed to insert CreateTenderVersion">>, FALSE)
     ELSE IF fault = "commit"
       THEN Ret(db, <<[t EXCEPT !.Id = id]>>, <<>>, FALSE)
     ELSE Ret(tx, <<[t EXCEPT !.Id = id]>>, <<>>, TRUE)

CreateBid(db, bid, fault) ==
  LET id == NewUuid(BidIds, { h.id : h \in db.bt })
      headerOk == /\ bid.TenderId \in { h.id : h \in db.tt }
                  /\ StatusCheck(bid.Status)
                  /\ bid.OrganizationId \in organization
                  /\ bid.CreatorUsername \in { e.username : e \in employee }
      versionOk == Len(bid.Name) <= NameLimit
      tx == [db EXCEPT
               !.bt = @ \cup { [id |-> id, tender_id |-> bid.TenderId,
                                status |-> bid.Status,
                                organization_id |-> bid.OrganizationId,
                                creator_username |-> bid.CreatorUsername] },
               !.bv[id] = Append(@, [name |-> bid.Name,
                                     description |-> bid.Description,
                                     version |-> 1])]
  IN IF fault = "begin"
       THEN Ret(db, <<>>, <<"failed to begin transaction">>, FALSE)
     ELSE IF ~headerOk
       THEN Ret(db, <<>>, <<"failed to insert bid">>, FALSE)
     ELSE IF ~versionOk
       THEN Ret(db, <<>>, <<"failed to insert CreateTenderVersion">>, FALSE)
     ELSE IF fault = "commit"
       THEN Ret(db, <<[bid EXCEPT !.Id = id]>>, <<>>, FALSE)
     ELSE Ret(tx, <<[bid EXCEPT !.Id = id]>>, <<>>, TRUE)

\* The text of the error RollbackTender and RollbackBid return for a
\* version that is not stored, and handleTenderRollback and handleBidRollback
\* rebuild to recognise it.
VersionNotFound(version, id) ==
  <<"version %d does not exist for tender %d", version, id>>

\* The rollback without its DELETE.
DeleteNothing(rows, version) == rows

\* DELETE with the comparison turned round: removes the versions below.
DeleteLower(rows, version) ==
  SelectSeq(rows, LAMBDA r : ~(r.version < version))

\* DELETE limited to one row: only the highest version goes, if above.
DeleteHighest(rows, version) ==
  SelectSeq(rows, LAMBDA r :
    ~(r.version > version /\ r.version = MaxVersion(rows)))

\* Rows left by DELETE ... WHERE version > $2.
DeleteHigher(rows, version) ==
  SelectSeq(rows, LAMBDA r : ~(r.version > version))

\* The DELETE without its id condition: the versions above go for every id.
DeleteVersions_EveryId(tab, id, version) ==
  [i \in DOMAIN tab |-> DeleteHigher(tab[i], version)]

\* The version table after DELETE ... WHERE <id column> = $1 AND
\* version > $2.
DeleteVersions(tab, id, version) ==
  [tab EXCEPT ![id] = DeleteHigher(@, version)]

\* The read-back with its version condition left out: every row of the id.
AtAnyVersion(rows, version) == rows

\* Rows selected by ... WHERE version = $2.
AtVersion(rows, version) ==
  SelectSeq(rows, LAMBDA r : r.version = version)

\* The check with the version condition left out.
AnyVersionExists(rows, version) == rows # <<>>

\* SELECT EXISTS (SELECT 1 ... WHERE id = $1 AND version = $2).
VersionExists(rows, version) == AtVersion(rows, version) # <<>>

RollbackTender(db, tender_id, version, fault) ==
  LET rows == Rows(db.tv, tender_id)
      exists == VersionExists(rows, version)
      tx == [db EXCEPT !.tv = DeleteVersions(@, tender_id, version)]
      hdr == { h \in tx.tt : h.id = tender_id }
      found == AtVersion(Rows(tx.tv, tender_id), version)
      t == LET h == CHOOSE h \in hdr : TRUE
               v == Head(found)
           IN [Id |-> h.id, Name |-> v.name, Description |-> v.description,
               ServiceType |-> h.service_type, Status |-> h.status,
               OrganizationID |-> h.organization_id,
               CreatorUsername |-> h.creator_username]
  IN IF fault = "begin"
       THEN Ret(db, <<>>, <<"failed to begin transaction">>, FALSE)
     ELSE IF ~exists
       THEN Ret(db, <<>>, VersionNotFound(version, tender_id),
                fault # "commit")
     ELSE IF hdr = {} \/ found = <<>>
       THEN Ret(db, <<>>, <<"failed to retrieve rolled back version">>, FALSE)
     ELSE IF fault = "commit"
       THEN Ret(db, <<t>>, <<>>, FALSE)
     ELSE Ret(tx, <<t>>, <<>>, TRUE)

RollbackBid(db, bid_id, version, fault) ==
  LET rows == Rows(db.bv, bid_id)
      exists == VersionExists(rows, version)
      tx == [db EXCEPT !.bv = DeleteVersions(@, bid_id, version)]
      hdr == { h \in tx.bt : h.id = bid_id }
      found == AtVersion(Rows(tx.bv, bid_id), version)
      t == LET h == CHOOSE h \in hdr : TRUE
               v == Head(found)
           IN [Id |-> h.id, Name |-> v.name, Description |-> v.description,
               Status |-> h.status, TenderId |-> h.tender_id,
               OrganizationId |-> h.organization_id,
               CreatorUsername |-> h.creator_username]
  IN IF fault = "begin"
       THEN Ret(db, <<>>, <<"failed to begin transaction">>, FALSE)
     ELSE IF ~exists
       THEN Ret(db, <<>>, VersionNotFound(version, bid_id), fault # "commit")
     ELSE IF hdr = {} \/ found = <<>>
       THEN Ret(db, <<>>, <<"failed to retrieve rolled back version">>, FALSE)
     ELSE IF fault = "commit"
       THEN Ret(db, <<t>>, <<>>, FALSE)
     ELSE Ret(tx, <<t>>, <<>>, TRUE)

\* The error of Scan dropped: the edit goes on with currentVersion 0.
NoRows_Ignored(rows) == FALSE

\* Scan(&currentVersion) returns sql.ErrNoRows: the id has no version row.
NoRows(rows) == rows = <<>>

\* The increment left out: the new row repeats the current version.
NextVersion_Same(rows) == MaxVersion(rows)

\* newVersion := currentVersion + 1.
NextVersion(rows) == MaxVersion(rows) + 1

UpdateTenderById(db, CreateTenderTable_id, name, description, fault) ==
  LET rows == Rows(db.tv, CreateTenderTable_id)
      newVersion == NextVersion(rows)
      insertOk == /\ Len(name) <= NameLimit
                  /\ CreateTenderTable_id \in { h.id : h \in db.tt }
      tx == [db EXCEPT !.tv[CreateTenderTable_id] =
                          Append(@, [name |-> name,
                                     description |-> description,
                                     version |-> newVersion])]
      hdr == { h \in tx.tt : h.id = CreateTenderTable_id }
      t == LET h == CHOOSE h \in hdr : TRUE
           IN [Id |-> h.id, Name |-> name, Description |-> description,
               ServiceType |-> h.service_type, Status |-> h.status,
               OrganizationID |-> h.organization_id,
               CreatorUsername |-> h.creator_username]
  IN IF fault = "begin"
       THEN Ret(db, <<>>, <<"failed to begin transaction">>, FALSE)
     ELSE IF NoRows(rows)
       THEN Ret(db, <<>>, <<"failed to retrieve current version">>, FALSE)
     ELSE IF ~insertOk
       THEN Ret(db, <<>>, <<"failed to update CreateTenderVersion">>, FALSE)
     ELSE IF hdr = {}
       THEN Ret(db, <<>>, <<"failed to retrieve tender">>, FALSE)
     ELSE IF fault = "commit"
       THEN Ret(db, <<t>>, <<>>, FALSE)
     ELSE Ret(tx, <<t>>, <<>>, TRUE)

UpdateBidById(db, bid_id, name, description, fault) ==
  LET rows == Rows(db.bv, bid_id)
      newVersion == NextVersion(rows)
      insertOk == /\ Len(name) <= NameLimit
                  /\ bid_id \in { h.id : h \in db.bt }
      tx == [db EXCEPT !.bv[bid_id] =
                          Append(@, [name |-> name,
                                     description |-> description,
                                     version |-> newVersion])]
      hdr == { h \in tx.bt : h.id = bid_id }
      t == LET h == CHOOSE h \in hdr : TRUE
           IN [Id |-> h.id, Name |-> name, Description |-> description,
               Status |-> h.status, TenderId |-> h.tender_id,
               OrganizationId |-> h.organization_id,
               CreatorUsername |-> h.creator_username]
  IN IF fault = "begin"
       THEN Ret(db, <<>>, <<"failed to begin transaction">>, FALSE)
     ELSE IF NoRows(rows)
       THEN Ret(db, <<>>, <<"failed to retrieve current version">>, FALSE)
     ELSE IF ~insertOk
       THEN Ret(db, <<>>, <<"failed to update CreateTenderVersion">>, FALSE)
     ELSE IF hdr = {}
       THEN Ret(db, <<>>, <<"failed to retrieve tender">>, FALSE)
     ELSE IF fault = "commit"
       THEN Ret(db, <<t>>, <<>>, FALSE)
     ELSE Ret(tx, <<t>>, <<>>, TRUE)

\* The insert into a table declared without its REFERENCES clauses.
CreateReviewOnBid_NoForeignKey(db, rev, bid_id) ==
  Ret([db EXCEPT !.rv = Append(@, [bid_id |-> bid_id,
                                   creator_username |-> rev.CreatorUsername,
                                   comment |-> rev.Comment])],
      <<>>, <<>>, TRUE)

\* One INSERT outside any transaction; bid_id REFERENCES Bids(id) and
\* creator_username REFERENCES employee(username) reject the row.
CreateReviewOnBid(db, rev, bid_id) ==
  LET insertOk == /\ bid_id \in { h.id : h \in db.bt }
                  /\ rev.CreatorUsername \in { e.username : e \in employee }
  IN IF ~insertOk
       THEN Ret(db, <<>>, <<"violates foreign key constraint">>, FALSE)
     ELSE Ret([db EXCEPT
                 !.rv = Append(@, [bid_id |-> bid_id,
                                   creator_username |-> rev.CreatorUsername,
                                   comment |-> rev.Comment])],
              <<>>, <<>>, TRUE)

\* sql.ErrNoRows, returned by Scan when the query selects no row.
ErrNoRows == <<"sql: no rows in result set">>

\* The second lookup without its user_id condition.
isValidTenderCreator_AnyResponsible(name, org_id) ==
  LET emp == { e \in employee : e.username = name }
      resp == { r \in organization_responsible : r.organization_id = org_id }
  IN IF emp = {}
       THEN [valid |-> FALSE, err |-> ErrNoRows, lookups |-> 1]
     ELSE IF resp = {}
       THEN [valid |-> FALSE, err |-> ErrNoRows, lookups |-> 2]
     ELSE [valid |-> TRUE, err |-> <<>>, lookups |-> 2]

\* The check ending after the first lookup.
isValidTenderCreator_EmployeeOnly(name, org_id) ==
  LET emp == { e \in employee : e.username = name }
  IN IF emp = {}
       THEN [valid |-> FALSE, err |-> ErrNoRows, lookups |-> 1]
     ELSE [valid |-> TRUE, err |-> <<>>, lookups |-> 1]

\* valid and err are the two results; lookups counts the queries issued.
isValidTenderCreator(name, org_id) ==
  LET emp == { e \in employee : e.username = name }
      id_username == (CHOOSE e \in emp : TRUE).id
      resp == { r \in organization_responsible :
                  r.organization_id = org_id /\ r.user_id = id_username }
  IN IF emp = {}
       THEN [valid |-> FALSE, err |-> ErrNoRows, lookups |-> 1]
     ELSE IF resp = {}
       THEN [valid |-> FALSE, err |-> ErrNoRows, lookups |-> 2]
     ELSE [valid |-> TRUE, err |-> <<>>, lookups |-> 2]

\* The join without the condition on the highest version: every row of id.
AllVersions(tab, id) == Rows(tab, id)

\* The rows of id at its highest version (v.version = SELECT MAX(version)).
Latest(tab, id) ==
  LET rows == Rows(tab, id)
  IN IF rows = <<>> THEN <<>> ELSE AtVersion(rows, MaxVersion(rows))

\* One result row per pair of a header h and a latest version row of h,
\* scanned into a Tender.
TenderEntries(db, h) ==
  LET vs == Latest(db.tv, h.id)
  IN [i \in 1..Len(vs) |->
        [Id |-> h.id, Name |-> vs[i].name, Description |-> vs[i].description,
         ServiceType |-> h.service_type, Status |-> h.status,
         OrganizationID |-> h.organization_id,
         CreatorUsername |-> h.creator_username]]

\* The same for bids; neither bid query selects the tender id, so TenderId
\* keeps the zero value.
BidEntries(db, h) ==
  LET vs == Latest(db.bv, h.id)
  IN [i \in 1..Len(vs) |->
        [Id |-> h.id, Name |-> vs[i].name, Description |-> vs[i].description,
         Status |-> h.status, TenderId |-> "",
         OrganizationId |-> h.organization_id,
         CreatorUsername |-> h.creator_username]]

RECURSIVE TenderJoin(_, _, _)
\* The join over the headers hs, in the order of the header ids.
TenderJoin(db, hs, i) ==
  IF i > Len(TenderIds) THEN <<>>
  ELSE LET h == { x \in hs : x.id = TenderIds[i] }
       IN (IF h = {} THEN <<>> ELSE TenderEntries(db, CHOOSE x \in h : TRUE))
          \o TenderJoin(db, hs, i + 1)

RECURSIVE BidJoin(_, _, _)
BidJoin(db, hs, i) ==
  IF i > Len(BidIds) THEN <<>>
  ELSE LET h == { x \in hs : x.id = BidIds[i] }
       IN (IF h = {} THEN <<>> ELSE BidEntries(db, CHOOSE x \in h : TRUE))
          \o BidJoin(db, hs, i + 1)

\* A query result: rows (<<>> is a nil slice) and err.
QueryRet(rows, err) == [rows |-> rows, err |-> err]

GetTendersByUsername(db, username) ==
  QueryRet(TenderJoin(db, { h \in db.tt : h.creator_username = username }, 1),
           <<>>)

GetBidsByUsername(db, username) ==
  QueryRet(BidJoin(db, { h \in db.bt : h.creator_username = username }, 1),
           <<>>)

GetBidsByTenderId(db, tender_id) ==
  QueryRet(BidJoin(db, { h \in db.bt : h.tender_id = tender_id }, 1), <<>>)

\* The clauses of the statement GetAllTenders sends: the fixed text ends in
\* a WHERE clause, and a non-empty serviceType appends a second one.
AllTendersQuery(serviceType) ==
  <<"SELECT", "FROM", "JOIN", "ON", "WHERE">>
    \o (IF serviceType # "" THEN <<"WHERE">> ELSE <<>>)

\* The store parses a SELECT with at most one WHERE clause.
Parses(query) ==
  Cardinality({ i \in 1..Len(query) : query[i] = "WHERE" }) <= 1

GetAllTenders(db, serviceType) ==
  IF ~Parses(AllTendersQuery(serviceType))
    THEN QueryRet(<<>>, <<"failed to query CreateTenderTables">>)
  ELSE QueryRet(
         TenderJoin(db, { h \in db.tt : serviceType = ""
                                         \/ h.service_type = serviceType }, 1),
         <<>>)

\* The Review values scanned from the selected rows.
Reviews(rows) ==
  [i \in 1..Len(rows) |-> [CreatorUsername |-> rows[i].creator_username,
                            Comment |-> rows[i].comment]]

\* The query without its organization condition.
GetReviewBids_AnyOrganization(db, tender_id, org_id, author) ==
  QueryRet(Reviews(SelectSeq(db.rv, LAMBDA r :
             /\ r.creator_username = author
             /\ \E b \in db.bt : b.id = r.bid_id /\ b.tender_id = tender_id)),
           <<>>)

\* reviewsOnBid r JOIN Bids b ON r.bid_id = b.id WHERE
\* b.CreateTenderTable_id = $1 AND r.creator_username = $2 AND
\* b.organization_id = $3, called with (tender_id, author, org_id).
GetReviewBids(db, tender_id, org_id, author) ==
  QueryRet(Reviews(SelectSeq(db.rv, LAMBDA r :
             /\ r.creator_username = author
             /\ \E b \in db.bt : /\ b.id = r.bid_id
                                 /\ b.tender_id = tender_id
                                 /\ b.organization_id = org_id)),
           <<>>)

GetUserByUsername(username) ==
  LET emp == { e \in employee : e.username = username }
  IN IF emp = {} THEN [Id |-> ""] ELSE [Id |-> (CHOOSE e \in emp : TRUE).id]

----------------------------------------------------------------------------
\* api.go: one action per route.  last is the latest request with its answer:
\*   op, req     the handler and its decoded input
\*   status      the HTTP status written
\*   err         the error the handler returned (<<>> is nil)
\*   body        the entities written on success
\*   cause       what made the request fail: "none", "authorization",
\*               "version_not_found", "not_found", "storage", "validation"
\*   committed   whether the request's transaction was committed
\*   auth        <<>> or the result of isValidTenderCreator
\*   before      version rows of the target entity before the request
\*   after       k when the request before this one rolled the same entity
\*               back from a higher version to version k and committed,
\*               (for a rollback: to the same version k), else 0
\*   edits       n when the entity of the request was created and then edited
\*               n times by committed requests with no other request between
\*               them than edits of it that stored nothing, else -1

Resp(op, req, status, err, body, cause, committed, auth, before, after) ==
  [op |-> op, req |-> req, status |-> status, err |-> err, body |-> body,
   cause |-> cause, committed |-> committed, auth |-> auth,
   before |-> before, after |-> after, edits |-> -1]

\* Every error a handler returns is answered with the same status.
makeHTTPHandleFunc(err) == StatusBadRequest

Answer(db, resp) ==
  /\ CreateTenderTable' = db.tt
  /\ CreateTenderVersion' = db.tv
  /\ Bids' = db.bt
  /\ BidsVersion' = db.bv
  /\ reviewsOnBid' = db.rv
  /\ last' = resp
  /\ UNCHANGED sessions

\* The model stops inserting at MaxRows version and review rows and when
\* the header ids are used up.
HasRoom(ids, headers) ==
  /\ TotalRows(DB) < MaxRows
  /\ Range(ids) \ { h.id : h \in headers } # {}

TenderRequests ==
  { [Id |-> "", Name |-> "Road works", Description |-> "Phase 1",
     ServiceType |-> "construction", Status |-> "CREATED",
     OrganizationID |-> "o1", CreatorUsername |-> "alice"],
    [Id |-> "", Name |-> "Bridge", Description |-> "Phase 2",
     ServiceType |-> "delivery", Status |-> "CREATED",
     OrganizationID |-> "o2", CreatorUsername |-> "bob"],
    [Id |-> "", Name |-> "Road works", Description |-> "Phase 1",
     ServiceType |-> "construction", Status |-> "CREATED",
     OrganizationID |-> "o2", CreatorUsername |-> "alice"],
    [Id |-> "", Name |-> "Road works", Description |-> "Phase 1",
     ServiceType |-> "construction", Status |-> "CREATED",
     OrganizationID |-> "o1", CreatorUsername |-> "mallory"],
    [Id |-> "", Name |-> "Road works", Description |-> "Phase 1",
     ServiceType |-> "construction", Status |-> "OPEN",
     OrganizationID |-> "o1", CreatorUsername |-> "alice"],
    [Id |-> "", Name |-> LongName, Description |-> "Phase 2",
     ServiceType |-> "delivery", Status |-> "CREATED",
     OrganizationID |-> "o2", CreatorUsername |-> "bob"] }

BidRequests ==
  { [Id |-> "", Name |-> "Road works", Description |-> "Phase 1",
     Status |-> "CREATED", TenderId |-> tid,
     OrganizationId |-> "o1", CreatorUsername |-> "alice"] :
       tid \in Range(TenderIds) \cup {UnknownId} }
  \cup
  { [Id |-> "", Name |-> "Bridge", Description |-> "Phase 2",
     Status |-> "CREATED", TenderId |-> "t1",
     OrganizationId |-> "o2", CreatorUsername |-> "bob"],
    [Id |-> "", Name |-> "Bridge", Description |-> "Phase 2",
     Status |-> "CREATED", TenderId |-> "t1",
     OrganizationId |-> "o1", CreatorUsername |-> "bob"],
    [Id |-> "", Name |-> "Bridge", Description |-> "Phase 2",
     Status |-> "CREATED", TenderId |-> "t1",
     OrganizationId |-> "o2", CreatorUsername |-> "mallory"],
    [Id |-> "", Name |-> "Bridge", Description |-> "Phase 2",
     Status |-> "OPEN", TenderId |-> "t1",
     OrganizationId |-> "o2", CreatorUsername |-> "bob"],
    [Id |-> "", Name |-> LongName, Description |-> "Phase 1",
     Status |-> "CREATED", TenderId |-> "t1",
     OrganizationId |-> "o1", CreatorUsername |-> "alice"] }

createNewTender(tender, fault) ==
  LET v == isValidTenderCreator(tender.CreatorUsername, tender.OrganizationID)
      r == CreateTender(DB, tender, fault)
      err == IF v.err # <<>> THEN v.err
             ELSE IF ~v.valid
               THEN <<"Invalid creator username for the given organization">>
             ELSE r.err
  IN /\ (v.err = <<>> /\ v.valid) => HasRoom(TenderIds, CreateTenderTable)
     /\ IF v.err # <<>> \/ ~v.valid
          THEN Answer(DB, Resp("createNewTender", tender,
                               makeHTTPHandleFunc(err), err, <<>>,
                               "authorization", FALSE, <<v>>, 0, 0))
        ELSE IF r.err # <<>>
          THEN Answer(r.db, Resp("createNewTender", tender,
                                 makeHTTPHandleFunc(err), err, <<>>,
                                 "storage", r.committed, <<v>>, 0, 0))
        ELSE Answer(r.db, [Resp("createNewTender", tender, StatusOK, <<>>,
                                r.ret, "none", r.committed, <<v>>, 0, 0)
                             EXCEPT !.edits = IF r.committed THEN 0 ELSE -1])

createNewBid(bid, fault) ==
  LET v == isValidTenderCreator(bid.CreatorUsername, bid.OrganizationId)
      r == CreateBid(DB, bid, fault)
      err == IF v.err # <<>> THEN v.err
             ELSE IF ~v.valid
               THEN <<"Invalid creator username for the given organization">>
             ELSE r.err
  IN /\ (v.err = <<>> /\ v.valid) => HasRoom(BidIds, Bids)
     /\ IF v.err # <<>> \/ ~v.valid
          THEN Answer(DB, Resp("createNewBid", bid,
                               makeHTTPHandleFunc(err), err, <<>>,
                               "authorization", FALSE, <<v>>, 0, 0))
        ELSE IF r.err # <<>>
          THEN Answer(r.db, Resp("createNewBid", bid,
                                 makeHTTPHandleFunc(err), err, <<>>,
                                 "storage", r.committed, <<v>>, 0, 0))
        ELSE Answer(r.db, [Resp("createNewBid", bid, StatusOK, <<>>,
                                r.ret, "none", r.committed, <<v>>, 0, 0)
                             EXCEPT !.edits = IF r.committed THEN 0 ELSE -1])

\* k when the latest request is a committed rollback of id to version k
\* that removed at least one row.
Restored(op, id) ==
  IF /\ last.op = op
     /\ last.status = StatusOK
     /\ last.committed
     /\ last.req.id = id
     /\ last.before > last.req.version
  THEN last.req.version ELSE 0

\* The number of committed edits of id after this request, counted from the
\* creation of id, when the latest request created id or continued such a
\* count for id; stored says whether this request commits an edit.
Edits(createOp, updateOp, id, stored) ==
  IF /\ last.edits >= 0
     /\ \/ last.op = createOp /\ last.body[1].Id = id
        \/ last.op = updateOp /\ last.req.id = id
  THEN last.edits + (IF stored THEN 1 ELSE 0)
  ELSE -1

updateTenderById(id, content, fault) ==
  LET r == UpdateTenderById(DB, id, content.name, content.description, fault)
      req == [id |-> id, name |-> content.name,
              description |-> content.description]
      before == Len(Rows(CreateTenderVersion, id))
      after == Restored("handleTenderRollback", id)
      edits == Edits("createNewTender", "updateTenderById", id,
                     r.err = <<>> /\ r.committed)
  IN /\ TotalRows(DB) < MaxRows
     /\ IF r.err # <<>>
          THEN Answer(r.db, [Resp("updateTenderById", req,
                                  makeHTTPHandleFunc(r.err), r.err, <<>>,
                                  IF r.err = <<"failed to retrieve current version">>
                                    THEN "not_found" ELSE "storage",
                                  r.committed, <<>>, before, after)
                               EXCEPT !.edits = edits])
        ELSE Answer(r.db, [Resp("updateTenderById", req, StatusOK, <<>>,
                                r.ret, "none", r.committed, <<>>, before,
                                after)
                             EXCEPT !.edits = edits])

updateBidById(id, content, fault) ==
  LET r == UpdateBidById(DB, id, content.name, content.description, fault)
      req == [id |-> id, name |-> content.name,
              description |-> content.description]
      before == Len(Rows(BidsVersion, id))
      after == Restored("handleBidRollback", id)
      edits == Edits("createNewBid", "updateBidById", id,
                     r.err = <<>> /\ r.committed)
  IN /\ TotalRows(DB) < MaxRows
     /\ IF r.err # <<>>
          THEN Answer(r.db, [Resp("updateBidById", req,
                                  makeHTTPHandleFunc(r.err), r.err, <<>>,
                                  IF r.err = <<"failed to retrieve current version">>
                                    THEN "not_found" ELSE "storage",
                                  r.committed, <<>>, before, after)
                               EXCEPT !.edits = edits])
        ELSE Answer(r.db, [Resp("updateBidById", req, StatusOK, <<>>,
                                r.ret, "none", r.committed, <<>>, before,
                                after)
                             EXCEPT !.edits = edits])

handleTenderRollback(tender_id, version, fault) ==
  LET r == RollbackTender(DB, tender_id, version, fault)
      req == [id |-> tender_id, version |-> version]
      before == Len(Rows(CreateTenderVersion, tender_id))
      after == IF last.op = "handleTenderRollback" /\ last.req.version = version
               THEN Restored("handleTenderRollback", tender_id) ELSE 0
      notFound == r.err = VersionNotFound(version, tender_id)
      err == IF notFound THEN <<"Version does not exist">>
             ELSE <<"Error rolling back tender">> \o r.err
  IN IF r.err # <<>>
       THEN Answer(r.db, Resp("handleTenderRollback", req,
                              makeHTTPHandleFunc(err), err, <<>>,
                              IF notFound THEN "version_not_found"
                              ELSE "storage",
                              r.committed, <<>>, before, after))
     ELSE Answer(r.db, Resp("handleTenderRollback", req, StatusOK, <<>>,
                            r.ret, "none", r.committed, <<>>, before, after))

handleBidRollback(bid_id, version, fault) ==
  LET r == RollbackBid(DB, bid_id, version, fault)
      req == [id |-> bid_id, version |-> version]
      before == Len(Rows(BidsVersion, bid_id))
      after == IF last.op = "handleBidRollback" /\ last.req.version = version
               THEN Restored("handleBidRollback", bid_id) ELSE 0
      notFound == r.err = VersionNotFound(version, bid_id)
      err == IF notFound THEN <<"Version does not exist">>
             ELSE <<"Error rolling back tender">> \o r.err
  IN IF r.err # <<>>
       THEN Answer(r.db, Resp("handleBidRollback", req,
                              makeHTTPHandleFunc(err), err, <<>>,
                              IF notFound THEN "version_not_found"
                              ELSE "storage",
                              r.committed, <<>>, before, after))
     ELSE Answer(r.db, Resp("handleBidRollback", req, StatusOK, <<>>,
                            r.ret, "none", r.committed, <<>>, before, after))

createNewReviewOnBid(bid_id, review) ==
  LET r == CreateReviewOnBid(DB, review, bid_id)
      req == [bid_id |-> bid_id, CreatorUsername |-> review.CreatorUsername,
              Comment |-> review.Comment]
      before == Len(reviewsOnBid)
  IN /\ (bid_id # "" /\ r.err = <<>>) => TotalRows(DB) < MaxRows
     /\ IF bid_id = ""
          THEN Answer(DB, Resp("createNewReviewOnBid", req,
                               makeHTTPHandleFunc(<<"Invalid params">>),
                               <<"Invalid params">>, <<>>, "validation",
                               FALSE, <<>>, before, 0))
        ELSE IF r.err # <<>>
          THEN Answer(r.db, Resp("createNewReviewOnBid", req,
                                 makeHTTPHandleFunc(r.err),
                                 <<"Data error : ">> \o r.err, <<>>,
                                 "storage", r.committed, <<>>, before, 0))
        ELSE Answer(r.db, Resp("createNewReviewOnBid", req, StatusOK, <<>>,
                               <<"ok">>, "none", r.committed, <<>>, before,
                               0))

\* The answer of a read-only route.
Read(op, req, status, err, body, cause) ==
  Answer(DB, Resp(op, req, status, err, body, cause, FALSE, <<>>, 0, 0))

getAllTenders(service_type) ==
  LET q == GetAllTenders(DB, service_type)
      req == [service_type |-> service_type]
  IN IF q.err # <<>>
       THEN Read("getAllTenders", req, makeHTTPHandleFunc(q.err), q.err,
                 <<>>, "storage")
     ELSE Read("getAllTenders", req, StatusOK, <<>>, q.rows, "none")

handleUserTenders(username) ==
  LET user == GetUserByUsername(username)
      q == GetTendersByUsername(DB, username)
      req == [username |-> username]
  IN IF username = ""
       THEN Read("handleUserTenders", req, StatusBadRequest, <<>>,
                 <<"No username param">>, "validation")
     ELSE IF user.Id = ""
       THEN Read("handleUserTenders", req, StatusNotFound, <<>>,
                 <<"User not found">>, "not_found")
     ELSE IF q.rows = <<>>
       THEN Read("handleUserTenders", req, StatusOK, <<>>,
                 <<"No tenders yet">>, "none")
     ELSE Read("handleUserTenders", req, StatusOK, <<>>, q.rows, "none")

handleUserBids(username) ==
  LET user == GetUserByUsername(username)
      q == GetBidsByUsername(DB, username)
      req == [username |-> username]
  IN IF username = ""
       THEN Read("handleUserBids", req, StatusBadRequest, <<>>,
                 <<"No username param">>, "validation")
     ELSE IF user.Id = ""
       THEN Read("handleUserBids", req, StatusNotFound, <<>>,
                 <<"User not found">>, "not_found")
     ELSE IF q.rows = <<>>
       THEN Read("handleUserBids", req, StatusOK, <<>>,
                 <<"No bids yet">>, "none")
     ELSE Read("handleUserBids", req, StatusOK, <<>>, q.rows, "none")

handleTenderBids(tender_id) ==
  LET q == GetBidsByTenderId(DB, tender_id)
      req == [tender_id |-> tender_id]
  IN IF q.rows = <<>>
       THEN Read("handleTenderBids", req, StatusOK, <<>>, <<"No bids">>,
                 "none")
     ELSE Read("handleTenderBids", req, StatusOK, <<>>, q.rows, "none")

handleReviewBids(tenderId, organizationId, authorUsername) ==
  LET q == GetReviewBids(DB, tenderId, organizationId, authorUsername)
      req == [tender_id |-> tenderId, organizationId |-> organizationId,
              authorUsername |-> authorUsername]
  IN IF organizationId = "" \/ authorUsername = "" \/ tenderId = ""
       THEN Read("handleReviewBids", req,
                 makeHTTPHandleFunc(<<"Invalid params">>),
                 <<"Invalid params">>, <<>>, "validation")
     ELSE IF q.err # <<>>
       THEN Read("handleReviewBids", req, makeHTTPHandleFunc(q.err),
                 <<"Error finding reviews">> \o q.err, <<>>, "storage")
     ELSE Read("handleReviewBids", req, StatusOK, <<>>, q.rows, "none")

----------------------------------------------------------------------------
\* Init(): the tables exist and are empty; nothing has been requested.
Init ==
  /\ CreateTenderTable = {}
  /\ CreateTenderVersion = [id \in Range(TenderIds) |-> <<>>]
  /\ Bids = {}
  /\ BidsVersion = [id \in Range(BidIds) |-> <<>>]
  /\ reviewsOnBid = <<>>
  /\ last = Resp("Run", <<>>, 0, <<>>, <<>>, "none", FALSE, <<>>, 0, 0)
  /\ sessions = [p \in Procs |-> <<>>]

Usernames == {"alice", "bob", "carol", "mallory"}

\* Edit requests: every content for every id that can be stored, and one
\* request for an id that is not.
UpdateRequests(ids) ==
  { [id |-> id, content |-> c] :
      id \in Range(ids), c \in Contents \cup BadContents }
  \cup { [id |-> UnknownId, content |-> c] : c \in BadContents }

\* Rollback requests: for every id that can be stored every version from 0
\* to one above the number of rows it holds, and one request for an id that
\* is not stored.
RollbackRequests(ids, tab) ==
  { r \in [id : Range(ids), version : 0..(MaxRows + 1)] :
      r.version <= Len(tab[r.id]) + 1 }
  \cup { [id |-> UnknownId, version |-> 1] }

\* Review requests: by two employees on the two bid ids that can be stored,
\* on an id that is not stored, by a user who is no employee, and without
\* a bid id.
ReviewRequests ==
  { [bid_id |-> b, review |-> [CreatorUsername |-> u,
                               Comment |-> "Good offer"]] :
      b \in Range(BidIds), u \in {"alice", "bob"} }
  \cup { [bid_id |-> UnknownId,
          review |-> [CreatorUsername |-> "alice", Comment |-> "Good offer"]],
         [bid_id |-> "b1",
          review |-> [CreatorUsername |-> "mallory", Comment |-> "Good offer"]],
         [bid_id |-> "",
          review |-> [CreatorUsername |-> "alice", Comment |-> "Good offer"]] }

\* Review queries: every tender id, organization and author of two, and
\* one query without its author.
ReviewQueries ==
  [tender_id : Range(TenderIds), organizationId : organization,
   authorUsername : {"alice", "bob"}]
  \cup { [tender_id |-> "t1", organizationId |-> "o1",
          authorUsername |-> ""] }

\* Every request of reqs served while the store works and while its commit
\* fails, and the requests of down served while no transaction can be
\* begun.
Calls(reqs, down) ==
  { [req |-> r, fault |-> f] : r \in reqs, f \in {"none", "commit"} }
  \cup { [req |-> r, fault |-> "begin"] : r \in down \cap reqs }

\* Run(): the router serves one request after the other.
Next ==
  \/ \E c \in Calls(TenderRequests,
                    { r \in TenderRequests :
                        r.CreatorUsername = "bob" /\ r.Name = "Bridge" }) :
       createNewTender(c.req, c.fault)
  \/ \E c \in Calls(BidRequests,
                    { r \in BidRequests :
                        r.CreatorUsername = "alice" /\ r.TenderId = "t1"
                        /\ r.Name = "Road works" }) :
       createNewBid(c.req, c.fault)
  \/ \E c \in Calls(UpdateRequests(TenderIds),
                    { r \in UpdateRequests(TenderIds) :
                        r.content.name = "Bridge" }) :
       updateTenderById(c.req.id, c.req.content, c.fault)
  \/ \E c \in Calls(UpdateRequests(BidIds),
                    { r \in UpdateRequests(BidIds) :
                        r.content.name = "Bridge" }) :
       updateBidById(c.req.id, c.req.content, c.fault)
  \/ \E c \in Calls(RollbackRequests(TenderIds, CreateTenderVersion),
                    { r \in RollbackRequests(TenderIds, CreateTenderVersion) :
                        r.version = 1 }) :
       handleTenderRollback(c.req.id, c.req.version, c.fault)
  \/ \E c \in Calls(RollbackRequests(BidIds, BidsVersion),
                    { r \in RollbackRequests(BidIds, BidsVersion) :
                        r.version = 1 }) :
       handleBidRollback(c.req.id, c.req.version, c.fault)
  \/ \E st \in {"", "construction", "delivery"} : getAllTenders(st)
  \/ \E u \in Usernames \cup {""} : handleUserTenders(u)
  \/ \E u \in Usernames \cup {""} : handleUserBids(u)
  \/ \E id \in Range(TenderIds) \cup {UnknownId} : handleTenderBids(id)
  \/ \E r \in ReviewRequests : createNewReviewOnBid(r.bid_id, r.review)
  \/ \E q \in ReviewQueries :
       handleReviewBids(q.tender_id, q.organizationId, q.authorUsername)

Spec == Init /\ [][Next]_vars

----------------------------------------------------------------------------
\* Two sessions run one store method each on the same entity, statement by
\* statement, each in its own transaction.  s.db.Begin() opens the
\* transactions at the store's default isolation (read committed): a
\* statement reads the committed rows and what its own transaction wrote,
\* and the writes of a transaction reach the table when it commits.

UpdateMethods == {"UpdateTenderById", "UpdateBidById"}
RollbackMethods == {"RollbackTender", "RollbackBid"}
TenderMethods == {"UpdateTenderById", "RollbackTender"}

\* The transaction of a session: the method and its arguments, the
\* statement it is at (pc), the local currentVersion, the rows the
\* transaction inserted and the positions of the committed rows it deleted,
\* and what the method returned.
Session(op, id, version, name, description) ==
  [op |-> op, id |-> id, version |-> version, name |-> name,
   description |-> description, pc |-> "begin", currentVersion |-> 0,
   inserted |-> <<>>, deleted |-> {}, ret |-> <<>>, err |-> <<>>,
   committed |-> FALSE]

\* rows without the positions in deleted.
RECURSIVE Without(_, _, _)
Without(rows, deleted, i) ==
  IF i > Len(rows) THEN <<>>
  ELSE (IF i \in deleted THEN <<>> ELSE <<rows[i]>>)
       \o Without(rows, deleted, i + 1)

\* The committed version rows of the entity of session t.
Committed(t) ==
  IF t.op \in TenderMethods THEN Rows(CreateTenderVersion, t.id)
  ELSE Rows(BidsVersion, t.id)

\* The version rows a statement of session t reads.
Visible(t) == Without(Committed(t), t.deleted, 1) \o t.inserted

\* The header row a statement of session t reads.
Header(t) ==
  IF t.op \in TenderMethods THEN { h \in CreateTenderTable : h.id = t.id }
  ELSE { h \in Bids : h.id = t.id }

\* The entity scanned from header h with the given name and description.
Scanned(t, h, name, description) ==
  IF t.op \in TenderMethods
    THEN [Id |-> h.id, Name |-> name, Description |-> description,
          ServiceType |-> h.service_type, Status |-> h.status,
          OrganizationID |-> h.organization_id,
          CreatorUsername |-> h.creator_username]
  ELSE [Id |-> h.id, Name |-> name, Description |-> description,
        Status |-> h.status, TenderId |-> h.tender_id,
        OrganizationId |-> h.organization_id,
        CreatorUsername |-> h.creator_username]

\* A statement of session p sets its transaction to t; no table changes.
Statement(p, t) ==
  /\ sessions' = [sessions EXCEPT ![p] = t]
  /\ UNCHANGED <<CreateTenderTable, CreateTenderVersion, Bids, BidsVersion,
                 reviewsOnBid, last>>

\* The method returns err; the deferred function rolls the transaction back.
Failed(t, err) ==
  [t EXCEPT !.err = err, !.pc = "done", !.inserted = <<>>, !.deleted = {}]

\* tx, err := s.db.Begin()
Begin(p) ==
  LET t == sessions[p]
  IN /\ t.pc = "begin"
     /\ Statement(p, [t EXCEPT !.pc = IF t.op \in UpdateMethods
                                        THEN "select_version" ELSE "exists"])

\* SELECT version ... ORDER BY version DESC LIMIT 1
SelectVersion(p) ==
  LET t == sessions[p]
  IN /\ t.pc = "select_version"
     /\ IF NoRows(Visible(t))
          THEN Statement(p, Failed(t, <<"failed to retrieve current version">>))
        ELSE Statement(p, [t EXCEPT !.currentVersion = MaxVersion(Visible(t)),
                                    !.pc = "insert"])

\* newVersion := currentVersion + 1; INSERT INTO the version table
Insert(p) ==
  LET t == sessions[p]
      newVersion == t.currentVersion + 1
  IN /\ t.pc = "insert"
     /\ IF Len(t.name) <= NameLimit /\ Header(t) # {}
          THEN Statement(p, [t EXCEPT
                 !.inserted = Append(@, [name |-> t.name,
                                         description |-> t.description,
                                         version |-> newVersion]),
                 !.pc = "select_header"])
        ELSE Statement(p, Failed(t, <<"failed to update CreateTenderVersion">>))

\* SELECT the header by id; the method returns the entity
SelectHeader(p) ==
  LET t == sessions[p]
  IN /\ t.pc = "select_header"
     /\ IF Header(t) = {}
          THEN Statement(p, Failed(t, <<"failed to retrieve tender">>))
        ELSE Statement(p, [t EXCEPT
               !.ret = <<Scanned(t, CHOOSE h \in Header(t) : TRUE,
                                 t.name, t.description)>>,
               !.pc = "commit"])

\* SELECT EXISTS (... WHERE id = $1 AND version = $2); for a version that
\* is not there the method returns an error that is not assigned to err, so
\* the deferred function commits.
Exists(p) ==
  LET t == sessions[p]
  IN /\ t.pc = "exists"
     /\ IF VersionExists(Visible(t), t.version)
          THEN Statement(p, [t EXCEPT !.pc = "delete"])
        ELSE Statement(p, [t EXCEPT !.err = VersionNotFound(t.version, t.id),
                                    !.pc = "commit"])

\* DELETE ... WHERE id = $1 AND version > $2
Delete(p) ==
  LET t == sessions[p]
      rows == Committed(t)
  IN /\ t.pc = "delete"
     /\ Statement(p, [t EXCEPT
          !.deleted = { i \in 1..Len(rows) : rows[i].version > t.version },
          !.inserted = DeleteHigher(@, t.version),
          !.pc = "read_back"])

\* SELECT the header joined with the version row WHERE version = $2
ReadBack(p) ==
  LET t == sessions[p]
      found == AtVersion(Visible(t), t.version)
  IN /\ t.pc = "read_back"
     /\ IF Header(t) = {} \/ found = <<>>
          THEN Statement(p, Failed(t, <<"failed to retrieve rolled back version">>))
        ELSE Statement(p, [t EXCEPT
               !.ret = <<Scanned(t, CHOOSE h \in Header(t) : TRUE,
                                 Head(found).name, Head(found).description)>>,
               !.pc = "commit"])

\* The deferred tx.Commit(): the deleted rows leave the table, the inserted
\* rows enter it.
Commit(p) ==
  LET t == sessions[p]
      rows == Without(Committed(t), t.deleted, 1) \o t.inserted
  IN /\ t.pc = "commit"
     /\ sessions' = [sessions EXCEPT ![p] = [t EXCEPT !.pc = "done",
                                                     !.committed = TRUE]]
     /\ IF t.op \in TenderMethods
          THEN /\ CreateTenderVersion' = [CreateTenderVersion EXCEPT ![t.id] = rows]
               /\ UNCHANGED BidsVersion
        ELSE /\ BidsVersion' = [BidsVersion EXCEPT ![t.id] = rows]
             /\ UNCHANGED CreateTenderVersion
     /\ UNCHANGED <<CreateTenderTable, Bids, reviewsOnBid, last>>

\* The version rows of an entity that was created and then edited n - 1
\* times, the contents taking turns.
StoredRows(n) ==
  [i \in 1..n |-> IF i % 2 = 1
                    THEN [name |-> "Road works", description |-> "Phase 1",
                          version |-> i]
                    ELSE [name |-> "Bridge", description |-> "Phase 2",
                          version |-> i]]

\* The pairs of calls that run together: an edit or a rollback of a tender
\* or bid by the first session, an edit of the same entity by the second.
ConcurrentCalls(n) ==
  { [p1 |-> Session(m[1], m[3], 0, c.name, c.description),
     p2 |-> Session(m[1], m[3], 0, d.name, d.description)] :
      m \in { <<"UpdateTenderById", "RollbackTender", "t1">>,
              <<"UpdateBidById", "RollbackBid", "b1">> },
      c \in Contents \cup BadContents, d \in Contents }
  \cup
  { [p1 |-> Session(m[2], m[3], k, "", ""),
     p2 |-> Session(m[1], m[3], 0, d.name, d.description)] :
      m \in { <<"UpdateTenderById", "RollbackTender", "t1">>,
              <<"UpdateBidById", "RollbackBid", "b1">> },
      k \in 0..(n + 1), d \in Contents }

\* A tender of alice for o1 and a bid of bob for o2 on it are stored with
\* up to MaxRows versions each, and two calls for one of them arrive.
InitConcurrent ==
  /\ CreateTenderTable =
       { [id |-> "t1", service_type |-> "construction", status |-> "CREATED",
          organization_id |-> "o1", creator_username |-> "alice"] }
  /\ Bids =
       { [id |-> "b1", tender_id |-> "t1", status |-> "CREATED",
          organization_id |-> "o2", creator_username |-> "bob"] }
  /\ reviewsOnBid = <<>>
  /\ last = Resp("Run", <<>>, 0, <<>>, <<>>, "none", FALSE, <<>>, 0, 0)
  /\ \E n \in 1..MaxRows :
       /\ CreateTenderVersion =
            [id \in Range(TenderIds) |-> IF id = "t1" THEN StoredRows(n)
                                         ELSE <<>>]
       /\ BidsVersion =
            [id \in Range(BidIds) |-> IF id = "b1" THEN StoredRows(n)
                                      ELSE <<>>]
       /\ sessions \in ConcurrentCalls(n)

NextConcurrent ==
  \E p \in Procs :
    \/ Begin(p)
    \/ SelectVersion(p)
    \/ Insert(p)
    \/ SelectHeader(p)
    \/ Exists(p)
    \/ Delete(p)
    \/ ReadBack(p)
    \/ Commit(p)

SpecConcurrent == InitConcurrent /\ [][NextConcurrent]_vars

----------------------------------------------------------------------------
\* Properties.

\* A request succeeded: it was answered 200 and its transaction committed.
Succeeded(l) == l.status = StatusOK /\ l.committed

TenderOps == {"createNewTender", "updateTenderById", "handleTenderRollback"}
CreateOps == {"createNewTender", "createNewBid"}
UpdateOps == {"updateTenderById", "updateBidById"}
RollbackOps == {"handleTenderRollback", "handleBidRollback"}

\* The version rows of id in the table the handler op writes.
RowsOf(op, tv, bv, id) == IF op \in TenderOps THEN Rows(tv, id) ELSE Rows(bv, id)

Versions(rows) == { rows[i].version : i \in 1..Len(rows) }

\* C1: the version numbers stored for every tender and bid are exactly
\* 1..m for some m >= 1 (no gap, no duplicate), and no version row exists
\* without its header.
C1_DenseVersions ==
  /\ \A id \in Range(TenderIds) :
       LET rows == CreateTenderVersion[id]
       IN /\ Versions(rows) = 1..Len(rows)
          /\ (id \in { h.id : h \in CreateTenderTable }) <=> Len(rows) >= 1
  /\ \A id \in Range(BidIds) :
       LET rows == BidsVersion[id]
       IN /\ Versions(rows) = 1..Len(rows)
          /\ (id \in { h.id : h \in Bids }) <=> Len(rows) >= 1

\* C1 witness: an entity was edited right after a rollback that removed
\* rows, and holds several versions again.
C1_Witness ==
  /\ last.op \in UpdateOps
  /\ Succeeded(last)
  /\ last.after >= 1
  /\ last.before >= 2

\* What a committed rollback of id to version k does to the rows of id:
\* exactly the rows above k are gone, the rows up to k are as they were.
RollbackEffect(before, after, k) ==
  /\ Versions(after) = { v \in Versions(before) : v <= k }
  /\ Len(after) = k
  /\ \A i \in 1..Len(after) : after[i] = before[i]

\* C2: a successful rollback of an entity to a stored version k removes
\* exactly its rows with version > k and leaves its rows 1..k as they were,
\* and a successful edit that follows it stores version k + 1.
C2_RollbackThenEdit ==
  [][ /\ (last'.op = "handleTenderRollback" /\ Succeeded(last')) =>
           RollbackEffect(CreateTenderVersion[last'.req.id],
                          CreateTenderVersion'[last'.req.id],
                          last'.req.version)
      /\ (last'.op = "handleBidRollback" /\ Succeeded(last')) =>
           RollbackEffect(BidsVersion[last'.req.id],
                          BidsVersion'[last'.req.id],
                          last'.req.version)
      /\ ( /\ last.op = "handleTenderRollback" /\ Succeeded(last)
           /\ last'.op = "updateTenderById" /\ Succeeded(last')
           /\ last'.req.id = last.req.id ) =>
           LET rows == CreateTenderVersion'[last.req.id]
           IN /\ Len(rows) = last.req.version + 1
              /\ rows[Len(rows)].version = last.req.version + 1
      /\ ( /\ last.op = "handleBidRollback" /\ Succeeded(last)
           /\ last'.op = "updateBidById" /\ Succeeded(last')
           /\ last'.req.id = last.req.id ) =>
           LET rows == BidsVersion'[last.req.id]
           IN /\ Len(rows) = last.req.version + 1
              /\ rows[Len(rows)].version = last.req.version + 1
    ]_vars

\* C2 witness: a tender that held three versions was rolled back to
\* version 1 and then edited; it holds versions 1 and 2.
C2_Witness ==
  /\ last.op = "updateTenderById"
  /\ Succeeded(last)
  /\ last.after = 1
  /\ Len(CreateTenderVersion[last.req.id]) = 2
  /\ CreateTenderVersion[last.req.id][2].version = 2

\* C3: a rollback to a version that is not stored for the id fails with
\* the version-not-found error (or, when no transaction can be begun, with
\* that storage error) and changes no row of any table.
C3_RollbackMissingVersion ==
  [][ ( /\ last'.op \in RollbackOps
        /\ last'.req.version \notin
             Versions(RowsOf(last'.op, CreateTenderVersion, BidsVersion,
                             last'.req.id)) ) =>
        /\ UNCHANGED <<CreateTenderTable, CreateTenderVersion, Bids,
                       BidsVersion, reviewsOnBid>>
        /\ last'.status = StatusBadRequest
        /\ last'.body = <<>>
        /\ \/ last'.cause = "version_not_found"
              /\ last'.err = <<"Version does not exist">>
           \/ last'.err = <<"Error rolling back tender",
                            "failed to begin transaction">>
    ]_vars

\* C3 witness: a rollback to version 0 of an entity that holds two rows or
\* more was refused as version-not-found.
C3_Witness ==
  /\ last.op \in RollbackOps
  /\ last.cause = "version_not_found"
  /\ last.req.version = 0
  /\ last.before >= 2

\* The entries a latest-version query owes for the headers hs: one entry
\* per header, carrying the name and description of the header's row with
\* the highest version.
IsLatestOf(rows, headers, tab) ==
  /\ \A h \in headers :
       Cardinality({ i \in 1..Len(rows) : rows[i].Id = h.id }) = 1
  /\ \A i \in 1..Len(rows) :
       \E h \in headers :
         /\ rows[i].Id = h.id
         /\ \E j \in 1..Len(tab[h.id]) :
              /\ \A n \in 1..Len(tab[h.id]) :
                   tab[h.id][n].version <= tab[h.id][j].version
              /\ rows[i].Name = tab[h.id][j].name
              /\ rows[i].Description = tab[h.id][j].description

\* C4: in every state, each latest-version query returns for every
\* matching header exactly one entry, with the name and description of the
\* header's highest stored version.
C4_QueriesReturnLatest ==
  /\ \A u \in Usernames :
       /\ IsLatestOf(GetTendersByUsername(DB, u).rows,
                     { h \in CreateTenderTable : h.creator_username = u },
                     CreateTenderVersion)
       /\ IsLatestOf(GetBidsByUsername(DB, u).rows,
                     { h \in Bids : h.creator_username = u }, BidsVersion)
  /\ \A t \in Range(TenderIds) \cup {UnknownId} :
       IsLatestOf(GetBidsByTenderId(DB, t).rows,
                  { h \in Bids : h.tender_id = t }, BidsVersion)
  /\ GetAllTenders(DB, "").err = <<>>
  /\ IsLatestOf(GetAllTenders(DB, "").rows, CreateTenderTable,
                CreateTenderVersion)
  /\ (last.op = "handleUserTenders" /\ last.status = StatusOK) =>
       LET hs == { h \in CreateTenderTable :
                     h.creator_username = last.req.username }
       IN IF hs = {} THEN last.body = <<"No tenders yet">>
          ELSE IsLatestOf(last.body, hs, CreateTenderVersion)
  /\ (last.op = "handleUserBids" /\ last.status = StatusOK) =>
       LET hs == { h \in Bids : h.creator_username = last.req.username }
       IN IF hs = {} THEN last.body = <<"No bids yet">>
          ELSE IsLatestOf(last.body, hs, BidsVersion)
  /\ (last.op = "handleTenderBids") =>
       LET hs == { h \in Bids : h.tender_id = last.req.tender_id }
       IN IF hs = {} THEN last.body = <<"No bids">>
          ELSE IsLatestOf(last.body, hs, BidsVersion)
  /\ (last.op = "getAllTenders" /\ last.req.service_type = "") =>
       /\ last.status = StatusOK
       /\ IsLatestOf(last.body, CreateTenderTable, CreateTenderVersion)

\* C4 witness: right after a rollback that removed a row and left an
\* intermediate version below the restored one, the queries have entries
\* to return.
C4_Witness ==
  /\ last.op \in RollbackOps
  /\ Succeeded(last)
  /\ last.before > last.req.version
  /\ last.req.version >= 2
  /\ GetAllTenders(DB, "").rows # <<>>

\* username is an employee linked to organization_id by a row of
\* organization_responsible.
Responsible(username, organization_id) ==
  \E e \in employee :
    /\ e.username = username
    /\ \E r \in organization_responsible :
         r.user_id = e.id /\ r.organization_id = organization_id

\* The organization a create request names.
OrgOf(l) ==
  IF l.op = "createNewTender" THEN l.req.OrganizationID
  ELSE l.req.OrganizationId

\* C5: isValidTenderCreator returns true exactly when the username is an
\* employee's and that employee is linked to the organization; for a
\* username without employee it returns false after the first lookup.
C5_ValidCreator ==
  (last.op \in CreateOps) =>
    LET v == last.auth[1]
        u == last.req.CreatorUsername
    IN /\ v.valid <=> Responsible(u, OrgOf(last))
       /\ (\A e \in employee : e.username # u) =>
            ~v.valid /\ v.lookups = 1
       /\ (\E e \in employee : e.username = u) => v.lookups = 2

\* C5 witness: the check was made for an employee who is not linked to the
\* organization of the request, and for no other reason returned false.
C5_Witness ==
  /\ last.op \in CreateOps
  /\ \E e \in employee : e.username = last.req.CreatorUsername
  /\ ~Responsible(last.req.CreatorUsername, OrgOf(last))
  /\ ~last.auth[1].valid
  /\ last.auth[1].lookups = 2

\* C6: a create request whose creator is not responsible for its
\* organization is rejected and inserts nothing, and every stored header
\* names a creator who is responsible for its organization.
C6_UnauthorizedCreateRejected ==
  [][ /\ (last'.op \in CreateOps
          /\ ~Responsible(last'.req.CreatorUsername, OrgOf(last'))) =>
           /\ UNCHANGED <<CreateTenderTable, CreateTenderVersion, Bids,
                          BidsVersion, reviewsOnBid>>
           /\ last'.status = StatusBadRequest
           /\ last'.body = <<>>
      /\ \A h \in CreateTenderTable' \cup Bids' :
           Responsible(h.creator_username, h.organization_id)
    ]_vars

\* C6 witness: a bid on a stored tender was refused because its creator,
\* an employee, is not responsible for the bid's organization.
C6_Witness ==
  /\ last.op = "createNewBid"
  /\ last.cause = "authorization"
  /\ last.req.TenderId \in { h.id : h \in CreateTenderTable }
  /\ last.req.CreatorUsername = "bob"
  /\ last.req.OrganizationId = "o1"
  /\ Bids = {}

\* C7: a header row exists exactly when its version-1 row exists, and a
\* create whose version insert fails after its header insert returns an
\* error and leaves no header behind.
C7_CreateAtomic ==
  [][ /\ \A id \in Range(TenderIds) :
           (id \in { h.id : h \in CreateTenderTable' })
             <=> (1 \in Versions(CreateTenderVersion'[id]))
      /\ \A id \in Range(BidIds) :
           (id \in { h.id : h \in Bids' }) <=> (1 \in Versions(BidsVersion'[id]))
      /\ (last'.op \in CreateOps
          /\ last'.err = <<"failed to insert CreateTenderVersion">>) =>
           /\ UNCHANGED <<CreateTenderTable, CreateTenderVersion, Bids,
                          BidsVersion, reviewsOnBid>>
           /\ last'.status # StatusOK
           /\ ~last'.committed
    ]_vars

\* C7 witness: a tender whose header could be inserted and whose version
\* row could not (the name is too long) was refused.
C7_Witness ==
  /\ last.op = "createNewTender"
  /\ last.err = <<"failed to insert CreateTenderVersion">>
  /\ Len(last.req.Name) > NameLimit
  /\ StatusCheck(last.req.Status)
  /\ Responsible(last.req.CreatorUsername, last.req.OrganizationID)

\* C8: getAllTenders succeeds for every service type and returns exactly
\* the tenders of that service type (all tenders for the empty string),
\* each at its latest version.
C8_ServiceTypeFilter ==
  (last.op = "getAllTenders") =>
    /\ last.status = StatusOK
    /\ IsLatestOf(last.body,
                  { h \in CreateTenderTable :
                      \/ last.req.service_type = ""
                      \/ h.service_type = last.req.service_type },
                  CreateTenderVersion)

\* C9: a rollback to a missing version and an unauthorized create are
\* answered with the client error status, every storage failure of a
\* create or a rollback with another error status.
C9_ErrorClasses ==
  (last.op \in CreateOps \cup RollbackOps) =>
    /\ (last.cause \in {"version_not_found", "authorization"}) =>
         last.status = StatusBadRequest
    /\ (last.cause = "storage") =>
         last.status \notin {StatusOK, StatusBadRequest}

\* C10: a create, edit or rollback answers with an entity and no error
\* only if its transaction was committed.
C10_CommitSurfaced ==
  (/\ last.op \in CreateOps \cup UpdateOps \cup RollbackOps
   /\ last.status = StatusOK
   /\ last.err = <<>>
   /\ last.body # <<>>) => last.committed

\* The entity a committed create or an edit is about, and its version rows.
EntityOf(l) == IF l.op \in CreateOps THEN l.body[1].Id ELSE l.req.id

\* C11 (as stated): after an entity is created and N >= 1 edits are applied
\* to it with no rollback in between, exactly N version rows exist for it,
\* numbered 1..N.
C11_EditsEqualRows ==
  (last.op \in UpdateOps /\ last.edits >= 1) =>
    LET rows == RowsOf(last.op, CreateTenderVersion, BidsVersion,
                       EntityOf(last))
    IN /\ Len(rows) = last.edits
       /\ Versions(rows) = 1..last.edits

\* C11 (amended): after an entity is created and N >= 0 edits are applied
\* to it with no rollback in between, exactly N + 1 version rows exist for
\* it, numbered 1..N+1 in the order they were stored: the creation stores
\* version 1 and every edit one more.
C11_CreatePlusEdits ==
  (last.op \in CreateOps \cup UpdateOps /\ last.edits >= 0) =>
    LET rows == RowsOf(last.op, CreateTenderVersion, BidsVersion,
                       EntityOf(last))
    IN /\ Len(rows) = last.edits + 1
       /\ \A i \in 1..Len(rows) : rows[i].version = i

\* C11 witness: an entity was created and then edited twice.
C11_Witness ==
  /\ last.op \in UpdateOps
  /\ Succeeded(last)
  /\ last.edits = 2

\* C12: an edit of an id that has no version rows is answered with an
\* error (the current version cannot be retrieved or, when no transaction
\* can be begun, that storage error) and leaves every table as it was.
C12_EditUnknownEntity ==
  [][ ( /\ last'.op \in UpdateOps
        /\ RowsOf(last'.op, CreateTenderVersion, BidsVersion,
                  last'.req.id) = <<>> ) =>
        /\ UNCHANGED <<CreateTenderTable, CreateTenderVersion, Bids,
                       BidsVersion, reviewsOnBid>>
        /\ last'.status = StatusBadRequest
        /\ last'.body = <<>>
        /\ last'.err \in { <<"failed to retrieve current version">>,
                           <<"failed to begin transaction">> }
    ]_vars

\* C12 witness: with other entities stored, an edit of an id that holds no
\* version row was refused because its current version could not be found.
C12_Witness ==
  /\ last.op \in UpdateOps
  /\ last.cause = "not_found"
  /\ last.before = 0
  /\ TotalRows(DB) >= 2

\* What a committed edit does to the version rows of its entity: the rows
\* stored before stay as they were and one row follows them, numbered one
\* above the highest version stored before, with the supplied content.
EditEffect(before, after, req) ==
  /\ Len(after) = Len(before) + 1
  /\ \A i \in 1..Len(before) : after[i] = before[i]
  /\ \A i \in 1..Len(before) :
       before[i].version < after[Len(after)].version
  /\ \E i \in 1..Len(before) :
       after[Len(after)].version = before[i].version + 1
  /\ after[Len(after)].name = req.name
  /\ after[Len(after)].description = req.description

\* C13: a successful edit of an existing entity appends exactly one version
\* row, numbered (current max version) + 1 and holding the supplied name
\* and description, modifies no earlier version row, and returns the stored
\* header fields of the entity with the supplied name and description.
C13_EditAppendsOneRow ==
  [][ /\ (last'.op = "updateTenderById" /\ Succeeded(last')) =>
           /\ EditEffect(CreateTenderVersion[last'.req.id],
                         CreateTenderVersion'[last'.req.id], last'.req)
           /\ Len(last'.body) = 1
           /\ \E h \in CreateTenderTable :
                last'.body[1] =
                  [Id |-> last'.req.id, Name |-> last'.req.name,
                   Description |-> last'.req.description,
                   ServiceType |-> h.service_type, Status |-> h.status,
                   OrganizationID |-> h.organization_id,
                   CreatorUsername |-> h.creator_username]
                /\ h.id = last'.req.id
      /\ (last'.op = "updateBidById" /\ Succeeded(last')) =>
           /\ EditEffect(BidsVersion[last'.req.id],
                         BidsVersion'[last'.req.id], last'.req)
           /\ Len(last'.body) = 1
           /\ \E h \in Bids :
                last'.body[1] =
                  [Id |-> last'.req.id, Name |-> last'.req.name,
                   Description |-> last'.req.description,
                   Status |-> h.status, TenderId |-> h.tender_id,
                   OrganizationId |-> h.organization_id,
                   CreatorUsername |-> h.creator_username]
                /\ h.id = last'.req.id
    ]_vars

\* C13 witness: an entity holding two versions with a content other than
\* the supplied one was edited, and holds three.
C13_Witness ==
  /\ last.op \in UpdateOps
  /\ Succeeded(last)
  /\ last.before = 2
  /\ LET rows == RowsOf(last.op, CreateTenderVersion, BidsVersion,
                        last.req.id)
     IN /\ Len(rows) = 3
        /\ rows[2].name # last.req.name

\* The name and description of the row of rows numbered k are those of the
\* entity e.
SnapshotOf(e, rows, k) ==
  \E i \in 1..Len(rows) :
    /\ rows[i].version = k
    /\ e.Name = rows[i].name
    /\ e.Description = rows[i].description

\* C14: a successful rollback of id to version k returns the name and
\* description stored in version k of id before the rollback, merged with
\* the header fields of id, however many later versions there were.
C14_RollbackReturnsVersionK ==
  [][ /\ (last'.op = "handleTenderRollback" /\ Succeeded(last')) =>
           /\ Len(last'.body) = 1
           /\ SnapshotOf(last'.body[1], CreateTenderVersion[last'.req.id],
                         last'.req.version)
           /\ \E h \in CreateTenderTable :
                /\ h.id = last'.req.id
                /\ last'.body[1].Id = h.id
                /\ last'.body[1].ServiceType = h.service_type
                /\ last'.body[1].Status = h.status
                /\ last'.body[1].OrganizationID = h.organization_id
                /\ last'.body[1].CreatorUsername = h.creator_username
      /\ (last'.op = "handleBidRollback" /\ Succeeded(last')) =>
           /\ Len(last'.body) = 1
           /\ SnapshotOf(last'.body[1], BidsVersion[last'.req.id],
                         last'.req.version)
           /\ \E h \in Bids :
                /\ h.id = last'.req.id
                /\ last'.body[1].Id = h.id
                /\ last'.body[1].TenderId = h.tender_id
                /\ last'.body[1].Status = h.status
                /\ last'.body[1].OrganizationId = h.organization_id
                /\ last'.body[1].CreatorUsername = h.creator_username
    ]_vars

\* C14 witness: an entity holding three versions was rolled back to
\* version 2, the content of which was not that of version 1, and the
\* content of version 2 was returned.
C14_Witness ==
  /\ last.op \in RollbackOps
  /\ Succeeded(last)
  /\ last.before = 3
  /\ last.req.version = 2
  /\ LET rows == RowsOf(last.op, CreateTenderVersion, BidsVersion,
                        last.req.id)
     IN /\ rows[1].name # rows[2].name
        /\ last.body[1].Name = rows[2].name

\* The stored review row r is by author on a bid of tender_id made for
\* org_id.
ReviewMatches(r, tender_id, org_id, author) ==
  /\ r.creator_username = author
  /\ \E b \in Bids : /\ b.id = r.bid_id
                     /\ b.tender_id = tender_id
                     /\ b.organization_id = org_id

\* The reviews in result are exactly the stored reviews that match, each as
\* often as it is stored.
ExactlyMatching(result, tender_id, org_id, author) ==
  LET stored == { j \in 1..Len(reviewsOnBid) :
                    ReviewMatches(reviewsOnBid[j], tender_id, org_id, author) }
      values == Range(result)
                \cup { [CreatorUsername |-> reviewsOnBid[j].creator_username,
                        Comment |-> reviewsOnBid[j].comment] : j \in stored }
  IN /\ Len(result) = Cardinality(stored)
     /\ \A v \in values :
          Cardinality({ i \in 1..Len(result) : result[i] = v })
          = Cardinality({ j \in stored :
                            /\ reviewsOnBid[j].creator_username
                                 = v.CreatorUsername
                            /\ reviewsOnBid[j].comment = v.Comment })

\* C15: GetReviewBids(tender_id, org_id, author) returns exactly the stored
\* reviews whose creator is author and whose bid has that tender_id and
\* that organization_id: every such review and no other one, and the
\* handler answers with them.
C15_ReviewsOfTenderOrgAuthor ==
  /\ \A t \in Range(TenderIds) \cup {UnknownId}, o \in organization,
        a \in Usernames :
       /\ GetReviewBids(DB, t, o, a).err = <<>>
       /\ ExactlyMatching(GetReviewBids(DB, t, o, a).rows, t, o, a)
  /\ (last.op = "handleReviewBids" /\ last.cause # "validation") =>
       /\ last.status = StatusOK
       /\ ExactlyMatching(last.body, last.req.tender_id,
                          last.req.organizationId, last.req.authorUsername)

\* C15 witness: the reviews of an author were asked for while a review of
\* that author is stored on a bid of the same tender made for another
\* organization, and none was returned.
C15_Witness ==
  /\ last.op = "handleReviewBids"
  /\ last.status = StatusOK
  /\ last.body = <<>>
  /\ \E j \in 1..Len(reviewsOnBid) : \E b \in Bids :
       /\ reviewsOnBid[j].creator_username = last.req.authorUsername
       /\ b.id = reviewsOnBid[j].bid_id
       /\ b.tender_id = last.req.tender_id
       /\ b.organization_id # last.req.organizationId

\* C16: a review for a bid id that is not stored or by a creator who is no
\* employee is refused and changes no table; a review that is accepted is
\* added as one row after the stored ones, which stay as they were, and no
\* bid or tender header or version row changes.
C16_ReviewInsert ==
  [][ (last'.op = "createNewReviewOnBid") =>
        /\ UNCHANGED <<CreateTenderTable, CreateTenderVersion, Bids,
                       BidsVersion>>
        /\ ( \/ last'.req.bid_id \notin { h.id : h \in Bids }
             \/ last'.req.CreatorUsername
                  \notin { e.username : e \in employee } ) =>
             /\ reviewsOnBid' = reviewsOnBid
             /\ last'.status = StatusBadRequest
             /\ last'.err # <<>>
        /\ (last'.status = StatusOK) =>
             reviewsOnBid' =
               Append(reviewsOnBid,
                      [bid_id |-> last'.req.bid_id,
                       creator_username |-> last'.req.CreatorUsername,
                       comment |-> last'.req.Comment])
    ]_vars

\* C16 witness: with a bid and a review of it stored, a review of that bid
\* by a user who is no employee was refused.
C16_Witness ==
  /\ last.op = "createNewReviewOnBid"
  /\ last.status = StatusBadRequest
  /\ last.req.bid_id \in { h.id : h \in Bids }
  /\ last.req.CreatorUsername \notin { e.username : e \in employee }
  /\ Len(reviewsOnBid) >= 1

\* C19: an edit or a rollback, successful or not, leaves the header rows of
\* every tender and bid, the version rows of every entity other than its
\* target and all reviews as they were.
C19_EditRollbackFrame ==
  [][ (last'.op \in UpdateOps \cup RollbackOps) =>
        /\ CreateTenderTable' = CreateTenderTable
        /\ Bids' = Bids
        /\ reviewsOnBid' = reviewsOnBid
        /\ \A id \in Range(TenderIds) :
             \/ last'.op \in TenderOps /\ id = last'.req.id
             \/ CreateTenderVersion'[id] = CreateTenderVersion[id]
        /\ \A id \in Range(BidIds) :
             \/ last'.op \notin TenderOps /\ id = last'.req.id
             \/ BidsVersion'[id] = BidsVersion[id]
    ]_vars

\* C19 witness: a rollback succeeded while another entity held a version
\* above the restored one, which it still holds.
C19_Witness ==
  /\ last.op \in RollbackOps
  /\ Succeeded(last)
  /\ \E id \in Range(TenderIds) \cup Range(BidIds) :
       /\ id # last.req.id
       /\ Len(Rows(CreateTenderVersion, id)) + Len(Rows(BidsVersion, id))
            > last.req.version

\* C20: a rollback of an entity to a stored version k that is repeated
\* right after it succeeded changes no table and, unless the store fails,
\* is answered as the first one was, with the same snapshot; a successful
\* rollback to the highest stored version changes no table.
C20_RollbackIdempotent ==
  [][ /\ ( /\ last.op \in RollbackOps
           /\ Succeeded(last)
           /\ last'.op = last.op
           /\ last'.req = last.req ) =>
           /\ UNCHANGED <<CreateTenderTable, CreateTenderVersion, Bids,
                          BidsVersion, reviewsOnBid>>
           /\ \/ last'.cause = "storage"
              \/ /\ last'.status = StatusOK
                 /\ last'.err = <<>>
                 /\ last'.body = last.body
      /\ ( /\ last'.op \in RollbackOps
           /\ Succeeded(last')
           /\ \A v \in Versions(RowsOf(last'.op, CreateTenderVersion,
                                       BidsVersion, last'.req.id)) :
                v <= last'.req.version ) =>
           UNCHANGED <<CreateTenderTable, CreateTenderVersion, Bids,
                       BidsVersion, reviewsOnBid>>
    ]_vars

\* C20 witness: a rollback that removed rows was repeated and succeeded
\* again, with nothing left to remove.
C20_Witness ==
  /\ last.op \in RollbackOps
  /\ Succeeded(last)
  /\ last.after >= 1
  /\ last.after = last.req.version
  /\ last.before = last.req.version

\* The session has finished its method without error and committed.
Stored(t) == t.pc = "done" /\ t.err = <<>> /\ t.committed

\* No two rows of rows carry the same version number.
DistinctVersions(rows) ==
  \A i, j \in 1..Len(rows) : rows[i].version = rows[j].version => i = j

\* C17: while two edits of one entity run together, no two version rows of
\* an entity ever carry the same version number, and when both edits have
\* succeeded their rows are both stored, numbered max + 1 and max + 2.
C17_ConcurrentEditsDistinct ==
  /\ \A id \in Range(TenderIds) : DistinctVersions(CreateTenderVersion[id])
  /\ \A id \in Range(BidIds) : DistinctVersions(BidsVersion[id])
  /\ ( /\ \A p \in Procs : sessions[p].op \in UpdateMethods
       /\ \A p \in Procs : Stored(sessions[p]) ) =>
       LET rows == Committed(sessions["p1"])
           a == sessions["p1"].inserted[1]
           b == sessions["p2"].inserted[1]
       IN /\ a.version # b.version
          /\ \E i, j \in 1..Len(rows) :
               i # j /\ rows[i] = a /\ rows[j] = b
          /\ Versions(rows) = 1..Len(rows)

\* C18: when a rollback of an entity to version k runs together with an
\* edit of it, the version numbers stored once both have finished are
\* 1..m without gap, and the step that makes the rollback visible removes
\* every row above k that was stored, not only some of them.
C18_RollbackWithEdit ==
  [][ \A p, q \in Procs :
        ( /\ sessions'[p].op \in RollbackMethods
          /\ sessions'[q].op \in UpdateMethods ) =>
          LET old == Committed(sessions[p])
              new == IF sessions[p].op \in TenderMethods
                       THEN CreateTenderVersion'[sessions[p].id]
                       ELSE BidsVersion'[sessions[p].id]
              k == sessions[p].version
          IN /\ ( sessions'[p].pc = "done" /\ sessions'[q].pc = "done" ) =>
                  Versions(new) = 1..Len(new)
             /\ ( \E i \in 1..Len(old) : old[i] \notin Range(new) ) =>
                  \A i \in 1..Len(new) : new[i].version <= k
    ]_vars

====
